---- MODULE Spec2Model ----
(***************************************************************************)
(* A model of summarize-beacon.py: the command-line driver (main), the     *)
(* beacon client (get_xml), the record extractor (parse_xml), the range    *)
(* validation (validate_timestamps), the range aggregator                  *)
(* (get_summary_record) and the frequency reporter (format_output_value).  *)
(*                                                                         *)
(* The program is sequential; pc is the statement the interpreter is at.   *)
(* The environment supplies: argv, the outcome of each HTTP GET (net, and  *)
(* the body of a successful response), the time Chronyk resolves a phrase  *)
(* to, a MemoryError at an allocation the program guards, and a            *)
(* KeyboardInterrupt at any statement.                                     *)
(*                                                                         *)
(* Text is a sequence of tokens: a hexadecimal character of Alphabet, or a *)
(* piece of markup.  Standard output is the sequence out of printed lines. *)
(***************************************************************************)
EXTENDS Integers, Sequences, FiniteSets

\* ---------------------------------------------------------------- constants
frequency == 3600
min_timestamp == 1378395540
tries == 3

\* ------------------------------------------------------------------- bounds
\* the ranged invocation spans at most MaxHours hours past the beacon start
MaxHours == 2
\* the number of HTTP GET outcomes the network scripts (later ones succeed)
NetLen == 3

\* hexadecimal characters, in ascending code-point order
Alphabet == <<"0", "A", "F">>
OpenTag == "<outputValue>"
CloseTag == "</outputValue>"

Chars == {Alphabet[i] : i \in DOMAIN Alphabet}
Rank(c) == CHOOSE i \in DOMAIN Alphabet : Alphabet[i] = c

\* response bodies the service may send
Bodies ==
  { <<OpenTag, "F", "0", "F", CloseTag>>,
    <<"<record>", OpenTag, "A", "0", CloseTag, "F", CloseTag>>,
    <<OpenTag, CloseTag>>,
    <<"<record>", "A">>,
    <<CloseTag, OpenTag, "A">> }

\* relative-time phrases of argv; Chronyk rejects those of BadPhrases
GoodPhrases == {"2 hours ago"}
BadPhrases == {"2 hours"}
Phrases == GoodPhrases \cup BadPhrases

\* the instants Chronyk may resolve a good phrase to (it depends on the clock)
RawTimes ==
  {min_timestamp - 60} \cup
  {min_timestamp + h * frequency + s : h \in 0..MaxHours, s \in {0, 59, 60}}

ArgvSet ==
  { <<>>, <<"--help">>, <<"-h">>, <<"--from", "2 hours ago">>,
    <<"--from", "2 hours ago", "--to">>,
    <<"--from", "2 hours ago", "--to", "2 hours ago", "--help">> }
  \cup { <<a, p, b, q>> : a \in {"--from", "--form"}, b \in {"--to", "--from"},
                          p \in Phrases, q \in Phrases }

NetScripts == [1..NetLen -> BOOLEAN]

VARIABLES
  args,            \* sys.argv[1:]
  pc,              \* the statement the interpreter is at
  status,          \* "running", "exit" (sys.exit or return of main), "raised"
  code,            \* the exit code, when status = "exit"
  exc,             \* the exception that escaped main, when status = "raised"
  interrupted,     \* a KeyboardInterrupt was delivered
  out,             \* standard output, one record per printed line
  net,             \* outcomes of the HTTP GETs still to come
  fetches,         \* the HTTP GETs issued so far
  from_timestamp, to_timestamp,
  index,           \* enumerate() position in get_summary_record
  output_data,     \* running summary of get_summary_record
  url, x, str_error, xml,      \* locals of get_xml
  record,          \* value returned by parse_xml
  output_value, symbols, pos, counter   \* locals of format_output_value

vars == <<args, pc, status, code, exc, interrupted, out, net, fetches,
          from_timestamp, to_timestamp, index, output_data, url, x, str_error,
          xml, record, output_value, symbols, pos, counter>>

\* -------------------------------------------------------------------- lines
Line(k, c, m) == [kind |-> k, ch |-> c, n |-> m]
Msg(k) == Line(k, "", 0)
Emit(lines) == out' = out \o lines

LastUrl == [last |-> TRUE, ts |-> 0]
TimestampUrl(t) == [last |-> FALSE, ts |-> t]

\* ----------------------------------------------------------- pure functions
\* str(bytes): the repr of the body, b'...'
StrOfBytes(body) == <<"b'">> \o body \o <<"'">>

SetMin(S) == CHOOSE m \in S : \A k \in S : m <= k

\* re.search('<outputValue>(.*?)</outputValue>', xml): the leftmost opening tag
\* that a closing tag follows, and the nearest closing tag after it
re_search(text) ==
  LET opens == {i \in DOMAIN text :
                  /\ text[i] = OpenTag
                  /\ \E j \in (i + 1)..Len(text) : text[j] = CloseTag}
  IN IF opens = {}
       THEN [found |-> FALSE, group |-> <<>>]
       ELSE LET i == SetMin(opens)
                j == SetMin({k \in (i + 1)..Len(text) : text[k] = CloseTag})
            IN [found |-> TRUE, group |-> SubSeq(text, i + 1, j - 1)]

\* range() with the stop value included
RECURSIVE RangeInclusive(_, _, _)
RangeInclusive(start, stop, step) ==
  IF start <= stop THEN <<start>> \o RangeInclusive(start + step, stop, step) ELSE <<>>

\* range(start, stop, step) as a list
RECURSIVE Range(_, _, _)
Range(start, stop, step) ==
  IF start < stop THEN <<start>> \o Range(start + step, stop, step) ELSE <<>>

\* insertion of c into the sorted sequence s, by code point
RECURSIVE Insert(_, _)
Insert(c, s) ==
  IF s = <<>> THEN <<c>>
  ELSE IF Rank(c) < Rank(Head(s)) THEN <<c>> \o s
  ELSE <<Head(s)>> \o Insert(c, Tail(s))

\* the string left in its arrival order
Unsorted(s) == s

\* ''.join(sorted(s))
RECURSIVE Sorted(_)
Sorted(s) == IF s = <<>> THEN <<>> ELSE Insert(Head(s), Sorted(Tail(s)))

\* s.count(c)
RECURSIVE Count(_, _)
Count(s, c) ==
  IF s = <<>> THEN 0
  ELSE (IF Head(s) = c THEN 1 ELSE 0) + Count(Tail(s), c)

\* s.replace(c, "", 1): only the first occurrence goes
RECURSIVE ReplaceFirst(_, _)
ReplaceFirst(s, c) ==
  IF s = <<>> THEN <<>>
  ELSE IF Head(s) = c THEN Tail(s)
  ELSE <<Head(s)>> \o ReplaceFirst(Tail(s), c)

\* s.replace(c, "")
Replace(s, c) == SelectSeq(s, LAMBDA d : d # c)

\* main without the test of the third token
ArgsShapeNoToCheck(a) ==
  IF Len(a) = 0 THEN "last"
  ELSE IF Len(a) = 1 THEN (IF a[1] = "--help" THEN "help" ELSE "wrong")
  ELSE IF Len(a) = 4 THEN (IF a[1] # "--from" THEN "wrong" ELSE "range")
  ELSE "wrong"

\* the branch of main the argument list selects
ArgsShape(a) ==
  IF Len(a) = 0 THEN "last"
  ELSE IF Len(a) = 1 THEN (IF a[1] = "--help" THEN "help" ELSE "wrong")
  ELSE IF Len(a) = 4
    THEN (IF a[1] # "--from" THEN "wrong"
          ELSE IF a[3] # "--to" THEN "wrong"
          ELSE "range")
  ELSE "wrong"

\* validate_timestamps with "and" for "or" in the second test
validate_timestamps_and(f, t) ==
  IF f > t THEN "from_less_than_to"
  ELSE IF f < min_timestamp /\ t < min_timestamp THEN "time_less_than_min"
  ELSE "ok"

\* the branch validate_timestamps takes
validate_timestamps(f, t) ==
  IF f > t THEN "from_less_than_to"
  ELSE IF f < min_timestamp \/ t < min_timestamp THEN "time_less_than_min"
  ELSE "ok"

\* what Chronyk(phrase).timestamp() may give: a ValueError, or an instant
Chronyk(phrase) ==
  IF phrase \in BadPhrases
    THEN {[ok |-> FALSE, ts |-> 0]}
    ELSE {[ok |-> TRUE, ts |-> r] : r \in RawTimes}

\* the statements inside get_summary_record and its callees
AggregationPcs == {"agg_loop", "get_xml", "get_xml_check", "parse_xml", "agg_concat"}

\* one try block around get_summary_record and format_output_value
CaughtByMainWide(p, a) ==
  /\ ArgsShape(a) = "range"
  /\ p \in AggregationPcs \cup {"format_sort", "format_count", "format_print", "format_replace"}

\* whether a KeyboardInterrupt raised at statement p reaches the handler of main
CaughtByMain(p, a) == ArgsShape(a) = "range" /\ p \in AggregationPcs

\* ---------------------------------------------------------------------- Init
Init ==
  /\ args \in ArgvSet
  /\ net \in NetScripts
  /\ pc = "main"
  /\ status = "running"
  /\ code = 0
  /\ exc = "none"
  /\ interrupted = FALSE
  /\ out = <<>>
  /\ fetches = <<>>
  /\ from_timestamp = 0
  /\ to_timestamp = 0
  /\ index = 0
  /\ output_data = <<>>
  /\ url = LastUrl
  /\ x = 0
  /\ str_error = "unbound"
  /\ xml = <<>>
  /\ record = <<>>
  /\ output_value = <<>>
  /\ symbols = <<>>
  /\ pos = 1
  /\ counter = 0

Exit(c) == status' = "exit" /\ code' = c /\ exc' = exc
Raise(e) == status' = "raised" /\ exc' = e /\ code' = code
Continue == UNCHANGED <<status, code, exc>>

\* ------------------------------------------------------------------- actions
\* main, lines 159-185 and 200-203: dispatch on the argument list
Main ==
  /\ status = "running" /\ pc = "main"
  /\ LET shape == ArgsShape(args) IN
       /\ IF shape = "help" THEN Emit(<<Msg("help_message")>>) /\ Exit(0)
          ELSE IF shape = "wrong"
            THEN Emit(<<Msg("wrong_parameters_message"), Msg("help_message")>>) /\ Exit(2)
          ELSE out' = out /\ Continue
       /\ pc' = IF shape = "last" THEN "get_xml"
                ELSE IF shape = "range" THEN "convert_from"
                ELSE pc
  /\ url' = LastUrl /\ x' = 0 /\ str_error' = "unbound" /\ xml' = <<>>
  /\ UNCHANGED <<args, interrupted, net, fetches, from_timestamp, to_timestamp,
                 index, output_data, record, output_value, symbols, pos, counter>>

\* convert_to_timestamp, lines 112-126, called at line 186 with options['--from']
ConvertFrom ==
  /\ status = "running" /\ pc = "convert_from"
  /\ \E r \in Chronyk(args[2]) :
       IF r.ok
         THEN /\ from_timestamp' = r.ts - (r.ts % 60)
              /\ pc' = "convert_to"
              /\ out' = out /\ Continue
         ELSE /\ Emit(<<Msg("bad_time_received"), Msg("help_message")>>)
              /\ Exit(1)
              /\ UNCHANGED <<from_timestamp, pc>>
  /\ UNCHANGED <<args, interrupted, net, fetches, to_timestamp, index, output_data,
                 url, x, str_error, xml, record, output_value, symbols, pos, counter>>

\* convert_to_timestamp, lines 112-126, called at line 187 with options['--to']
ConvertTo ==
  /\ status = "running" /\ pc = "convert_to"
  /\ \E r \in Chronyk(args[4]) :
       IF r.ok
         THEN /\ to_timestamp' = r.ts - (r.ts % 60)
              /\ pc' = "validate"
              /\ out' = out /\ Continue
         ELSE /\ Emit(<<Msg("bad_time_received"), Msg("help_message")>>)
              /\ Exit(1)
              /\ UNCHANGED <<to_timestamp, pc>>
  /\ UNCHANGED <<args, interrupted, net, fetches, from_timestamp, index, output_data,
                 url, x, str_error, xml, record, output_value, symbols, pos, counter>>

\* lines 188-189 and 131-132: validate_timestamps, the echo of the resolved
\* times, and the entry of get_summary_record
Validate ==
  /\ status = "running" /\ pc = "validate"
  /\ LET v == validate_timestamps(from_timestamp, to_timestamp) IN
       IF v = "ok"
         THEN /\ Emit(<<Msg("requested_records")>>)
              /\ Continue
              /\ pc' = "agg_loop"
         ELSE /\ Emit(<<Msg(v)>>)
              /\ Exit(1)
              /\ pc' = pc
  /\ index' = 0 /\ output_data' = <<>>
  /\ UNCHANGED <<args, interrupted, net, fetches, from_timestamp, to_timestamp,
                 url, x, str_error, xml, record, output_value, symbols, pos, counter>>

\* get_summary_record, lines 133-135 and 143: the next timestamp of the range is
\* handed to get_xml; at the end of the range the summary goes to
\* format_output_value (line 196)
AggNext ==
  /\ status = "running" /\ pc = "agg_loop"
  /\ LET timestamps_list == Range(from_timestamp, to_timestamp, frequency) IN
       IF index < Len(timestamps_list)
         THEN /\ url' = TimestampUrl(timestamps_list[index + 1])
              /\ x' = 0 /\ str_error' = "unbound" /\ xml' = <<>>
              /\ pc' = "get_xml"
              /\ UNCHANGED output_value
         ELSE /\ output_value' = output_data
              /\ pc' = "format_sort"
              /\ UNCHANGED <<url, x, str_error, xml>>
  /\ Continue
  /\ UNCHANGED <<args, interrupted, out, net, fetches, from_timestamp, to_timestamp,
                 index, output_data, record, symbols, pos, counter>>

\* get_xml, lines 56-64: one HTTP GET.  On success xml and str_error are
\* assigned.  On a network error the handler prints, and leaving the except
\* clause unbinds its target str_error.
GetXmlTry ==
  /\ status = "running" /\ pc = "get_xml"
  /\ LET ok == IF net = <<>> THEN TRUE ELSE Head(net) IN
       /\ net' = IF net = <<>> THEN net ELSE Tail(net)
       /\ IF ok
            THEN /\ \E body \in Bodies : xml' = StrOfBytes(body)
                 /\ str_error' = "None"
                 /\ out' = out
            ELSE /\ Emit(<<Msg("host_unreachable")>>)
                 /\ str_error' = "unbound"
                 /\ xml' = xml
       /\ fetches' = Append(fetches, [url |-> url, ok |-> ok, xml |-> xml'])
  /\ pc' = "get_xml_check"
  /\ Continue
  /\ UNCHANGED <<args, interrupted, from_timestamp, to_timestamp, index, output_data,
                 url, x, record, output_value, symbols, pos, counter>>

\* get_xml, lines 65-72: the test of str_error, the retry and the give-up
GetXmlCheck ==
  /\ status = "running" /\ pc = "get_xml_check"
  /\ IF str_error = "unbound"
       THEN /\ Raise("UnboundLocalError")
            /\ UNCHANGED <<out, x, pc>>
     ELSE IF str_error = "None"
       THEN /\ pc' = "parse_xml"
            /\ Continue
            /\ UNCHANGED <<out, x>>
     ELSE IF x + 1 < tries
       THEN /\ Emit(<<Line("waiting_retry", "", x + 1), Msg("retrying")>>)
            /\ x' = x + 1
            /\ pc' = "get_xml"
            /\ Continue
       ELSE /\ Emit(<<Line("waiting_retry", "", x + 1), Msg("retrying"),
                      Msg("host_unreachable_at_all")>>)
            /\ Exit(1)
            /\ UNCHANGED <<x, pc>>
  /\ UNCHANGED <<args, interrupted, net, fetches, from_timestamp, to_timestamp, index,
                 output_data, url, str_error, xml, record, output_value, symbols,
                 pos, counter>>

\* parse_xml, lines 75-86: re.search gives None when the element is absent and
\* None.group raises AttributeError, which neither handler names
ParseXml ==
  /\ status = "running" /\ pc = "parse_xml"
  /\ LET m == re_search(xml) IN
       IF m.found
         THEN /\ record' = m.group
              /\ Continue
              /\ IF ArgsShape(args) = "last"
                   THEN pc' = "format_sort" /\ output_value' = m.group
                   ELSE pc' = "agg_concat" /\ output_value' = output_value
         ELSE /\ Raise("AttributeError")
              /\ UNCHANGED <<record, pc, output_value>>
  /\ UNCHANGED <<args, interrupted, out, net, fetches, from_timestamp, to_timestamp,
                 index, output_data, url, x, str_error, xml, symbols, pos, counter>>

\* get_summary_record, lines 137-142: append the record, draw the progress bar
AggConcat ==
  /\ status = "running" /\ pc = "agg_concat"
  /\ output_data' = output_data \o record
  /\ Emit(<<Line("progress", "", index + 1)>>)
  /\ index' = index + 1
  /\ pc' = "agg_loop"
  /\ Continue
  /\ UNCHANGED <<args, interrupted, net, fetches, from_timestamp, to_timestamp,
                 url, x, str_error, xml, record, output_value, symbols, pos, counter>>

\* format_output_value, lines 103-105: sort, print the header, start the loop
\* over the characters of the sorted string
FormatSort ==
  /\ status = "running" /\ pc = "format_sort"
  /\ output_value' = Sorted(output_value)
  /\ symbols' = Sorted(output_value)
  /\ pos' = 1
  /\ Emit(<<Msg("result_header")>>)
  /\ pc' = "format_count"
  /\ Continue
  /\ UNCHANGED <<args, interrupted, net, fetches, from_timestamp, to_timestamp, index,
                 output_data, url, x, str_error, xml, record, counter>>

\* format_output_value, lines 105-106: the next symbol and its count in what
\* remains; when the loop ends main returns (line 204)
FormatCount ==
  /\ status = "running" /\ pc = "format_count"
  /\ IF pos <= Len(symbols)
       THEN /\ counter' = Count(output_value, symbols[pos])
            /\ pc' = "format_print"
            /\ Continue
       ELSE /\ Exit(0)
            /\ UNCHANGED <<counter, pc>>
  /\ UNCHANGED <<args, interrupted, out, net, fetches, from_timestamp, to_timestamp,
                 index, output_data, url, x, str_error, xml, record, output_value,
                 symbols, pos>>

\* format_output_value, lines 107-108: the guarded print
FormatPrint ==
  /\ status = "running" /\ pc = "format_print"
  /\ IF counter > 0
       THEN Emit(<<Line("frequency", symbols[pos], counter)>>)
       ELSE out' = out
  /\ pc' = "format_replace"
  /\ Continue
  /\ UNCHANGED <<args, interrupted, net, fetches, from_timestamp, to_timestamp, index,
                 output_data, url, x, str_error, xml, record, output_value, symbols,
                 pos, counter>>

\* format_output_value, line 109: strip the symbol, go to the next one
FormatReplace ==
  /\ status = "running" /\ pc = "format_replace"
  /\ output_value' = Replace(output_value, symbols[pos])
  /\ pos' = pos + 1
  /\ pc' = "format_count"
  /\ Continue
  /\ UNCHANGED <<args, interrupted, out, net, fetches, from_timestamp, to_timestamp,
                 index, output_data, url, x, str_error, xml, record, symbols, counter>>

\* a MemoryError at an allocation the program guards: the concatenation
\* (handler at lines 139-141), and the sort and the replace of
\* format_output_value (handler at lines 197-199, ranged invocation only)
MemoryError ==
  /\ status = "running"
  /\ pc \in {"agg_concat", "format_sort", "format_replace"}
  /\ IF pc = "agg_concat" \/ ArgsShape(args) = "range"
       THEN Emit(<<Msg("out_of_memory")>>) /\ Exit(1)
       ELSE out' = out /\ Raise("MemoryError")
  /\ UNCHANGED <<args, pc, interrupted, net, fetches, from_timestamp, to_timestamp,
                 index, output_data, url, x, str_error, xml, record, output_value,
                 symbols, pos, counter>>

\* a KeyboardInterrupt at any statement: the handler at lines 192-194 takes it
\* when it is raised under get_summary_record, otherwise it escapes main
KeyboardInterrupt ==
  /\ status = "running"
  /\ interrupted' = TRUE
  /\ IF CaughtByMain(pc, args)
       THEN Emit(<<Msg("interrupted_by_user")>>) /\ Exit(1)
       ELSE out' = out /\ Raise("KeyboardInterrupt")
  /\ UNCHANGED <<args, pc, net, fetches, from_timestamp, to_timestamp, index,
                 output_data, url, x, str_error, xml, record, output_value, symbols,
                 pos, counter>>

Next ==
  \/ Main
  \/ ConvertFrom
  \/ ConvertTo
  \/ Validate
  \/ AggNext
  \/ GetXmlTry
  \/ GetXmlCheck
  \/ ParseXml
  \/ AggConcat
  \/ FormatSort
  \/ FormatCount
  \/ FormatPrint
  \/ FormatReplace
  \/ MemoryError
  \/ KeyboardInterrupt

Spec == Init /\ [][Next]_vars

\* -------------------------------------------------------------------- claims
LastLine == out[Len(out)]
FrequencyLines == SelectSeq(out, LAMBDA l : l.kind = "frequency")
Kinds == {out[i].kind : i \in DOMAIN out}
Occurrences(s, c) == Cardinality({i \in DOMAIN s : s[i] = c})
Finished == status # "running" /\ ~interrupted

\* the attempts of the current get_xml call are the last x + 1 fetches
CallAttempts == {i \in DOMAIN fetches : i > Len(fetches) - (x + 1)}
\* the attempts the current call has left, as the network scripts them
AttemptsLeft == 1..(tries - (x + 1))
ScriptedOk(i) == i > Len(net) \/ net[i]

\* C1: when every HTTP GET of a get_xml call fails, the call ends only after
\* exactly 3 attempts, by exit code 1 with the "probably is down" diagnosis
\* last on standard output, and no exception escapes.
C1_ThreeAttemptsThenExit ==
  ( /\ pc = "get_xml_check" /\ Finished
    /\ \A i \in CallAttempts : ~fetches[i].ok
    /\ \A i \in AttemptsLeft : ~ScriptedOk(i) )
  => /\ x + 1 = tries
     /\ status = "exit" /\ code = 1
     /\ LastLine = Msg("host_unreachable_at_all")

\* C2: when the response text holds no <outputValue>...</outputValue> element,
\* parse_xml ends the process by exit code 1 with the "wasn't found" diagnosis
\* last on standard output; no exception escapes.
C2_NotFoundDiagnosis ==
  (pc = "parse_xml" /\ Finished /\ ~re_search(xml).found)
  => /\ status = "exit" /\ code = 1
     /\ LastLine = Msg("value_not_found")

Converted == from_timestamp # 0 /\ to_timestamp # 0
PreEpoch == from_timestamp < min_timestamp \/ to_timestamp < min_timestamp

\* C3 as stated: once both bounds are resolved and one of them predates the
\* beacon start, validation ends the process by exit code 1 with the pre-epoch
\* diagnosis, whatever the other bound.
C3_PreEpochWhateverTheOtherBound ==
  (Converted /\ PreEpoch /\ Finished)
  => /\ status = "exit" /\ code = 1
     /\ LastLine = Msg("time_less_than_min")

\* C3 amended: once both bounds are resolved and one of them predates the beacon
\* start, the run never gets past validation, and validation ends the process by
\* exit code 1 with the pre-epoch diagnosis when from <= to, and with the
\* ordering diagnosis when from > to.
C3_PreEpochUnlessInverted ==
  (Converted /\ PreEpoch)
  => /\ pc = "validate"
     /\ Finished =>
          /\ status = "exit" /\ code = 1
          /\ LastLine = IF from_timestamp > to_timestamp
                          THEN Msg("from_less_than_to")
                          ELSE Msg("time_less_than_min")

\* C3 witness: validation has rejected a range whose lower bound alone predates
\* the beacon start.
C3_Witness ==
  /\ pc = "validate" /\ status = "exit"
  /\ from_timestamp < min_timestamp /\ to_timestamp >= min_timestamp
  /\ LastLine = Msg("time_less_than_min")

\* the string handed to format_output_value
ReportInput == IF ArgsShape(args) = "last" THEN record ELSE output_data
ReportDone == pc = "format_count" /\ status = "exit"
RECURSIVE SumCounts(_)
SumCounts(ls) == IF ls = <<>> THEN 0 ELSE Head(ls).n + SumCounts(Tail(ls))

\* C4: when format_output_value has finished, standard output ends with the
\* header followed by exactly one frequency line per distinct character of the
\* input, in ascending character order, each with the number of occurrences of
\* its character in the input; the counts sum to the length of the input.
C4_OneLinePerCharacter ==
  ReportDone =>
    LET s == ReportInput
        L == FrequencyLines
    IN /\ \A c \in {s[i] : i \in DOMAIN s} :
            Cardinality({i \in DOMAIN L : L[i].ch = c}) = 1
       /\ \A i \in DOMAIN L :
            /\ Occurrences(s, L[i].ch) > 0
            /\ L[i].n = Occurrences(s, L[i].ch)
       /\ \A i, j \in DOMAIN L : i < j => Rank(L[i].ch) < Rank(L[j].ch)
       /\ SumCounts(L) = Len(s)
       /\ Len(out) > Len(L)
       /\ out[Len(out) - Len(L)] = Msg("result_header")
       /\ SubSeq(out, Len(out) - Len(L) + 1, Len(out)) = L

\* C4 witness: a finished report of an input with a repeated character and at
\* least two distinct characters.
C4_Witness ==
  /\ ReportDone
  /\ Len(FrequencyLines) >= 2
  /\ \E i \in DOMAIN FrequencyLines : FrequencyLines[i].n >= 2

ReportPcs == {"format_sort", "format_count", "format_print", "format_replace"}
Ranged == ArgsShape(args) = "range"
RECURSIVE Extracted(_)
Extracted(fs) ==
  IF fs = <<>> THEN <<>> ELSE re_search(Head(fs).xml).group \o Extracted(Tail(fs))

\* C5: in the ranged invocation the i-th fetch is for from_ts + (i-1)*3600, a
\* timestamp strictly less than to_ts; when every fetch succeeded and
\* get_summary_record has returned, the fetches reach to_ts (from_ts + n*3600 is
\* not less than to_ts) and the summary is the concatenation of the extracted
\* output values in fetch order.
C5_HourlyProbesBelowTo ==
  Ranged =>
    LET n == Len(fetches) IN
    /\ \A i \in 1..n :
         /\ fetches[i].url = TimestampUrl(from_timestamp + (i - 1) * 3600)
         /\ fetches[i].url.ts < to_timestamp
    /\ (pc \in ReportPcs /\ \A i \in 1..n : fetches[i].ok) =>
         /\ from_timestamp + n * 3600 >= to_timestamp
         /\ output_data = Extracted(fetches)

\* C5 witness: get_summary_record has returned over a range of exactly two hours
\* after exactly two fetches.
C5_Witness ==
  /\ Ranged /\ pc \in ReportPcs
  /\ to_timestamp = from_timestamp + 7200
  /\ Len(fetches) = 2
  /\ output_data # <<>>

C6_Malformed ==
  \/ Len(args) = 3
  \/ Len(args) = 4 /\ (args[1] # "--from" \/ args[3] # "--to")

\* C6: with 3 arguments, or with 4 arguments whose first token is not "--from"
\* or whose third is not "--to", main prints the wrong-parameters message and
\* the usage text and exits with code 2; no timestamp is ever parsed and no
\* fetch is ever issued.
C6_MalformedArgumentsExit2 ==
  C6_Malformed =>
    /\ pc = "main" /\ fetches = <<>>
    /\ from_timestamp = 0 /\ to_timestamp = 0
    /\ status = "running" => out = <<>>
    /\ Finished =>
         /\ status = "exit" /\ code = 2
         /\ out = <<Msg("wrong_parameters_message"), Msg("help_message")>>

\* C6 witness: main has exited on 4 arguments that start with "--from" and have
\* a wrong third token.
C6_Witness ==
  /\ Len(args) = 4 /\ args[1] = "--from" /\ args[3] # "--to"
  /\ status = "exit" /\ code = 2

\* C7: a ranged invocation that ends on a fatal path (an exit code other than 0,
\* or an exception that escapes) has printed no frequency line.
C7_NoFrequencyLineOnFatalPath ==
  (Ranged /\ (status = "raised" \/ (status = "exit" /\ code # 0)))
  => FrequencyLines = <<>>

\* C8: when an attempt of get_xml has failed and one of the attempts the call
\* has left succeeds, get_xml does not end the process: it goes on to the retry.
C8_FailedAttemptIsRetried ==
  ( /\ pc = "get_xml_check" /\ ~interrupted
    /\ fetches # <<>> /\ ~fetches[Len(fetches)].ok
    /\ \E i \in AttemptsLeft : ScriptedOk(i) )
  => status = "running"

\* C9: a KeyboardInterrupt delivered while get_summary_record runs (at the loop
\* head, a fetch, the test after it, the extraction or the concatenation of a
\* ranged invocation) ends the process by exit code 1 with the "interrupted by
\* user" message and without any report output; one delivered anywhere else
\* escapes main as KeyboardInterrupt and that message is not printed.
C9_InterruptCaughtOnlyInAggregation ==
  interrupted =>
    IF Ranged /\ pc \in {"agg_loop", "get_xml", "get_xml_check", "parse_xml", "agg_concat"}
      THEN /\ status = "exit" /\ code = 1
           /\ LastLine = Msg("interrupted_by_user")
           /\ Kinds \cap {"result_header", "frequency"} = {}
      ELSE /\ status = "raised" /\ exc = "KeyboardInterrupt"
           /\ "interrupted_by_user" \notin Kinds

\* C9 witness: the interrupt arrived during the second fetch of a ranged
\* invocation and was turned into exit code 1.
C9_Witness ==
  /\ interrupted /\ Ranged /\ pc = "get_xml" /\ index = 1
  /\ status = "exit" /\ code = 1

\* C10 as stated: whenever format_output_value reaches the guard, counter > 0.
C10_GuardNeverFalse == pc = "format_print" => counter > 0

\* C10 amended: at the guard, counter is 0 exactly when the character taken is a
\* repeat of the one before it in the sorted string (it was stripped when its
\* first occurrence was handled), and otherwise counter is the number of
\* occurrences of the character in the sorted string, which is at least 1.
C10_GuardFalseExactlyOnRepeats ==
  pc = "format_print" =>
    IF pos > 1 /\ symbols[pos - 1] = symbols[pos]
      THEN counter = 0
      ELSE counter >= 1 /\ counter = Occurrences(symbols, symbols[pos])

\* C10 witness: the guard is reached with counter = 0 on a repeated character.
C10_Witness ==
  /\ pc = "format_print" /\ status = "running"
  /\ counter = 0 /\ pos > 1 /\ symbols[pos - 1] = symbols[pos]

====
